---------------------------- MODULE Spec2Model ----------------------------
(***************************************************************************)
(* Model of static/js/search.js: the search overlay of the textbook.       *)
(*                                                                         *)
(* Spec        the event-driven part: the listeners (search button, input  *)
(*             with its 80 ms debounce timer), the memoized index fetch,   *)
(*             the KaTeX loader script and the promise reactions.          *)
(* The pure functions (text cleaning, snippets, scoring, ordering) are     *)
(* operators, each exercised by a specification of its own further down.   *)
(***************************************************************************)
EXTENDS Integers, Sequences, FiniteSets, TLC

VARIABLES
  \* ---- closure state of search.js ----
  indexData,        \* 0 = null, otherwise the identity of the fetched array
  indexPromise,     \* "null" | "pending" | "fulfilled" | "rejected"
  t,                \* handle of the debounce timer (0 = null)
  \* ---- environment: network, promise jobs, DOM, timers ----
  fetchPhase,       \* "idle" | "response" | "body" | "done"
  reactions,        \* queries of the doSearch callbacks waiting on indexPromise
  micro,            \* promise job queue (microtasks), run before any event
  display,          \* content of #search-results
  overlayOpen,      \* overlay.style.display = 'block'
  katex,            \* pickKatex() returns a renderer
  script,           \* <script data-search-katex>: "absent"|"loading"|"loaded"|"failed"
  scriptWaiter,     \* caller whose promise onload/onerror resolves
  inputValue,       \* input.value
  timers,           \* window timer table: handle -> remaining ms, -1 = not pending
  \* ---- history (observation only) ----
  sinceInput,       \* ms since the last input event (capped)
  hadInput,         \* an input event has happened
  runsSinceInput,   \* doSearch runs since the last input event
  lastRunAge,       \* sinceInput when doSearch last ran from the timer (-1 = never)
  lastQuery,        \* last argument passed to doSearch
  fetchCount,       \* calls of fetch()
  dataWrites,       \* assignments to indexData
  errorWrites,      \* clearResults(error message) calls of the catch handler
  scriptAppends,    \* appendChild of the loader script
  inputsInBurst,    \* input events of the current burst (each before the timer ran)
  lateCalls,        \* ensureIndexLoaded calls made after the promise was rejected
  \* ---- inputs and results of the pure functions ----
  fn,               \* name of the function that runs ("ui" in Spec)
  arg,              \* its arguments
  out               \* <<its result>>, <<>> before it has run

uiVars == <<indexData, indexPromise, t, fetchPhase, reactions, micro, display,
            overlayOpen, katex, script, scriptWaiter, inputValue, timers,
            sinceInput, hadInput, runsSinceInput, lastRunAge, lastQuery,
            fetchCount, dataWrites, errorWrites, scriptAppends, inputsInBurst, lateCalls>>
fnVars == <<fn, arg, out>>
vars == <<uiVars, fnVars>>

---------------------------------------------------------------------------
\* Bounds of the model
MaxPending == 2      \* doSearch callbacks waiting on the index promise
MaxTimers == 2       \* size of the timer table
TickMs == 20         \* granularity of time
CounterCap == 2      \* history counters saturate here

\* Program constants
Debounce == 80       \* setTimeout(..., 80)

Min(a, b) == IF a < b THEN a ELSE b
Max(a, b) == IF a > b THEN a ELSE b
Bump(n) == Min(n + 1, CounterCap)
AgeCap == Debounce + Debounce

\* values the user can leave in the input field
Values == {"", " ", "a", "b"}

\* (raw || '').trim()
Trim(raw) == IF raw = " " THEN "" ELSE raw

\* the index holds matches for "a" and none for "b"
Hits(q) == q = "a"

NoDisplay == [kind |-> "none", q |-> "", rendered |-> FALSE]
ErrorDisplay == [kind |-> "error", q |-> "", rendered |-> FALSE]

---------------------------------------------------------------------------
\* ensureIndexLoaded: which of its three returns is taken
EnsureIndexLoadedPath_NoShare(data, promise) ==
  IF data # 0 THEN "cached" ELSE "fetch"

EnsureIndexLoadedPath(data, promise) ==
  IF data # 0 THEN "cached"
  ELSE IF promise # "null" THEN "shared"
  ELSE "fetch"

\* ensureKatexLoaded: which resolve is taken
EnsureKatexLoadedPath(k, s) ==
  IF k THEN "have"
  ELSE IF s # "absent" THEN "present"
  ELSE "append"

\* window.clearTimeout(handle)
ClearTimeout_Noop(tm, h) == tm

ClearTimeout(tm, h) == IF h \in DOMAIN tm THEN [tm EXCEPT ![h] = -1] ELSE tm

FreeHandles(tm) == {i \in DOMAIN tm : tm[i] = -1}
SetTimeoutHandle(tm) == CHOOSE i \in FreeHandles(tm) : \A j \in FreeHandles(tm) : i <= j

\* the catch handler of the index promise chain writes the message
CatchWrites_PerWaiter(n, waiting) == Min(n + 1 + Len(waiting), CounterCap)

CatchWrites(n, waiting) == Bump(n)


---------------------------------------------------------------------------
\* State after the IIFE has run: listeners bound, nothing loaded.
UiInit ==
  /\ indexData = 0
  /\ indexPromise = "null"
  /\ t = 0
  /\ fetchPhase = "idle"
  /\ reactions = <<>>
  /\ micro = <<>>
  /\ display = NoDisplay
  /\ overlayOpen = FALSE
  /\ script = "absent"
  /\ scriptWaiter = "none"
  /\ inputValue = ""
  /\ timers = [i \in 1..MaxTimers |-> -1]
  /\ sinceInput = 0
  /\ hadInput = FALSE
  /\ runsSinceInput = 0
  /\ lastRunAge = -1
  /\ lastQuery = ""
  /\ fetchCount = 0
  /\ dataWrites = 0
  /\ errorWrites = 0
  /\ scriptAppends = 0
  /\ inputsInBurst = 0
  /\ lateCalls = 0

Init ==
  /\ UiInit
  /\ katex \in BOOLEAN        \* window.katex may already have been loaded by kg
  /\ fn = "ui"
  /\ arg = <<>>
  /\ out = <<>>

SearchJob(q) == [kind |-> "search", q |-> q, k |-> FALSE]
RerenderJob(k) == [kind |-> "rerender", q |-> "", k |-> k]

\* A call of ensureKatexLoaded by caller; mq is the job queue it extends
\* when its promise is resolved at once.
EnsureKatexLoaded(caller, mq) ==
  LET p == EnsureKatexLoadedPath(katex, script) IN
  /\ script' = IF p = "append" THEN "loading" ELSE script
  /\ scriptWaiter' = IF p = "append" THEN caller ELSE scriptWaiter
  /\ scriptAppends' = IF p = "append" THEN Bump(scriptAppends) ELSE scriptAppends
  /\ micro' = IF caller = "render" /\ p # "append"
              THEN Append(mq, RerenderJob(p = "have"))
              ELSE mq

\* The fetch part of a call of ensureIndexLoaded.
EnsureIndexLoaded(p) ==
  /\ indexPromise' = IF p = "fetch" THEN "pending" ELSE indexPromise
  /\ fetchPhase' = IF p = "fetch" THEN "response" ELSE fetchPhase
  /\ fetchCount' = IF p = "fetch" THEN Bump(fetchCount) ELSE fetchCount
  /\ lateCalls' = IF indexPromise = "rejected" THEN Bump(lateCalls) ELSE lateCalls

\* doSearch(raw) up to the registration of its callback.
DoSearch(raw) ==
  LET qRaw == Trim(raw)
      p == EnsureIndexLoadedPath(indexData, indexPromise)
      settled == p = "cached" \/ (p = "shared" /\ indexPromise = "fulfilled")
      waits == p = "fetch" \/ (p = "shared" /\ indexPromise = "pending")
  IN
  /\ lastQuery' = raw
  /\ IF qRaw = ""
     THEN /\ display' = NoDisplay
          /\ UNCHANGED <<indexPromise, fetchPhase, fetchCount, lateCalls,
                          reactions, micro>>
     ELSE /\ waits => Len(reactions) < MaxPending
          /\ display' = display
          /\ EnsureIndexLoaded(p)
          /\ micro' = IF settled THEN Append(micro, SearchJob(qRaw)) ELSE micro
          /\ reactions' = IF waits THEN Append(reactions, qRaw) ELSE reactions

\* searchBtn 'click' listener
Click ==
  /\ micro = <<>>
  /\ overlayOpen' = TRUE
  /\ display' = NoDisplay
  /\ EnsureIndexLoaded(EnsureIndexLoadedPath(indexData, indexPromise))
  /\ EnsureKatexLoaded("click", micro)
  /\ UNCHANGED <<indexData, t, reactions, katex, inputValue, timers,
                 sinceInput, hadInput, runsSinceInput, lastRunAge, lastQuery,
                 dataWrites, errorWrites, inputsInBurst>>
  /\ UNCHANGED fnVars

\* closeBtn 'click', overlay 'click' on the backdrop, Escape 'keydown'
Close ==
  /\ micro = <<>>
  /\ overlayOpen
  /\ overlayOpen' = FALSE
  /\ UNCHANGED <<indexData, indexPromise, t, fetchPhase, reactions, micro,
                 display, katex, script, scriptWaiter, inputValue, timers,
                 sinceInput, hadInput, runsSinceInput, lastRunAge, lastQuery,
                 fetchCount, dataWrites, errorWrites, scriptAppends, inputsInBurst, lateCalls>>
  /\ UNCHANGED fnVars

\* input 'input' listener: clearTimeout(t); t = setTimeout(..., 80)
InputEvent(v) ==
  LET cleared == ClearTimeout(timers, t) IN
  /\ micro = <<>>
  /\ FreeHandles(cleared) # {}
  /\ inputValue' = v
  /\ t' = SetTimeoutHandle(cleared)
  /\ timers' = [cleared EXCEPT ![SetTimeoutHandle(cleared)] = Debounce]
  /\ sinceInput' = 0
  /\ hadInput' = TRUE
  /\ runsSinceInput' = 0
  /\ inputsInBurst' = IF t \in DOMAIN timers /\ timers[t] >= 0
                      THEN Bump(inputsInBurst)
                      ELSE 1
  /\ UNCHANGED <<indexData, indexPromise, fetchPhase, reactions, micro,
                 display, overlayOpen, katex, script, scriptWaiter,
                 lastRunAge, lastQuery, fetchCount, dataWrites, errorWrites,
                 scriptAppends, lateCalls>>
  /\ UNCHANGED fnVars

\* TickMs of time pass
Tick ==
  /\ micro = <<>>
  /\ timers' = [i \in DOMAIN timers |->
                  IF timers[i] >= 0 THEN Max(0, timers[i] - TickMs) ELSE -1]
  /\ sinceInput' = Min(sinceInput + TickMs, AgeCap)
  /\ UNCHANGED <<indexData, indexPromise, t, fetchPhase, reactions, micro,
                 display, overlayOpen, katex, script, scriptWaiter, inputValue,
                 hadInput, runsSinceInput, lastRunAge, lastQuery, fetchCount,
                 dataWrites, errorWrites, scriptAppends,
                 inputsInBurst, lateCalls>>
  /\ UNCHANGED fnVars

\* the timer callback: () => doSearch(input.value)
TimerFire(h) ==
  /\ micro = <<>>
  /\ timers[h] = 0
  /\ timers' = [timers EXCEPT ![h] = -1]
  /\ DoSearch(inputValue)
  /\ lastRunAge' = sinceInput
  /\ runsSinceInput' = Bump(runsSinceInput)
  /\ UNCHANGED <<indexData, t, overlayOpen, katex, script, scriptWaiter,
                 inputValue, sinceInput, hadInput, dataWrites, errorWrites,
                 scriptAppends, inputsInBurst>>
  /\ UNCHANGED fnVars

\* The chain rejects: .catch writes the message and rethrows; the callbacks of
\* doSearch are skipped and their own .catch swallows the error.
RejectIndex ==
  /\ errorWrites' = CatchWrites(errorWrites, reactions)
  /\ display' = ErrorDisplay
  /\ indexPromise' = "rejected"
  /\ fetchPhase' = "done"
  /\ reactions' = <<>>
  /\ UNCHANGED <<indexData, dataWrites, micro>>

FetchRest == <<t, overlayOpen, katex, script, scriptWaiter, inputValue, timers,
               sinceInput, hadInput, runsSinceInput, lastRunAge, lastQuery,
               fetchCount, scriptAppends, inputsInBurst,
               lateCalls>>

\* fetch() settles: a response with r.ok or not, or a network error
FetchResponse(ok) ==
  /\ micro = <<>>
  /\ fetchPhase = "response"
  /\ IF ok
     THEN /\ fetchPhase' = "body"
          /\ UNCHANGED <<indexData, indexPromise, reactions, micro, display,
                         dataWrites, errorWrites>>
     ELSE RejectIndex
  /\ UNCHANGED FetchRest
  /\ UNCHANGED fnVars

\* r.json() settles: an array, another JSON value, or a parse error
JsonDone(payload) ==
  /\ micro = <<>>
  /\ fetchPhase = "body"
  /\ IF payload = "array"
     THEN /\ indexData' = fetchCount
          /\ dataWrites' = Bump(dataWrites)
          /\ indexPromise' = "fulfilled"
          /\ fetchPhase' = "done"
          /\ micro' = micro \o [i \in 1..Len(reactions) |-> SearchJob(reactions[i])]
          /\ reactions' = <<>>
          /\ UNCHANGED <<display, errorWrites>>
     ELSE RejectIndex
  /\ UNCHANGED FetchRest
  /\ UNCHANGED fnVars

\* the loader script fires onload (kg defines window.katex) or onerror
ScriptSettle(ok) ==
  /\ micro = <<>>
  /\ script = "loading"
  /\ script' = IF ok THEN "loaded" ELSE "failed"
  /\ katex' = (katex \/ ok)
  /\ micro' = IF scriptWaiter = "render"
              THEN Append(micro, RerenderJob(katex \/ ok))
              ELSE micro
  /\ scriptWaiter' = "none"
  /\ UNCHANGED <<indexData, indexPromise, t, fetchPhase, reactions, display,
                 overlayOpen, inputValue, timers, sinceInput, hadInput,
                 runsSinceInput, lastRunAge, lastQuery, fetchCount, dataWrites,
                 errorWrites, scriptAppends, inputsInBurst,
                 lateCalls>>
  /\ UNCHANGED fnVars

\* The next promise job. A search job is the callback of doSearch down to
\* renderResults; a rerender job is the callback of renderResults.
RunMicrotask ==
  /\ micro # <<>>
  /\ LET job == Head(micro) IN
     IF job.kind = "search"
     THEN IF Hits(job.q)
          THEN /\ display' = [kind |-> "results", q |-> job.q, rendered |-> katex]
               /\ EnsureKatexLoaded("render", Tail(micro))
          ELSE /\ display' = [kind |-> "empty", q |-> job.q, rendered |-> FALSE]
               /\ micro' = Tail(micro)
               /\ UNCHANGED <<script, scriptWaiter, scriptAppends>>
     ELSE /\ display' = IF job.k /\ display.kind = "results"
                        THEN [display EXCEPT !.rendered = katex]
                        ELSE display
          /\ micro' = Tail(micro)
          /\ UNCHANGED <<script, scriptWaiter, scriptAppends>>
  /\ UNCHANGED <<indexData, indexPromise, t, fetchPhase, reactions, overlayOpen,
                 katex, inputValue, timers, sinceInput, hadInput, runsSinceInput,
                 lastRunAge, lastQuery, fetchCount, dataWrites, errorWrites,
                 inputsInBurst, lateCalls>>
  /\ UNCHANGED fnVars

Next ==
  \/ Click
  \/ Close
  \/ \E v \in Values : InputEvent(v)
  \/ Tick
  \/ \E h \in 1..MaxTimers : TimerFire(h)
  \/ \E ok \in BOOLEAN : FetchResponse(ok)
  \/ \E payload \in {"array", "other", "parseError"} : JsonDone(payload)
  \/ \E ok \in BOOLEAN : ScriptSettle(ok)
  \/ RunMicrotask

Spec == Init /\ [][Next]_vars

---------------------------------------------------------------------------
\* Claims about the event-driven part (checked under Spec)

\* C1: whenever the result area shows results and no promise job is pending,
\* they are the results of the last query passed to doSearch.
C1_DisplayIsLatestQuery ==
  (micro = <<>> /\ display.kind = "results") => display.q = Trim(lastQuery)

\* C2: ensureIndexLoaded issues at most one fetch; callers arriving while it
\* is in flight share it; indexData is assigned at most once (the array of
\* that one fetch) and keeps that value.
C2_SingleFetch ==
  /\ fetchCount <= 1
  /\ dataWrites <= 1
  /\ indexData \in {0, 1}
  /\ (indexData = 0) = (dataWrites = 0)
  /\ (indexPromise # "null") = (fetchCount = 1)

\* several callers wait on the one fetch in flight, the overlay is open
C2_Witness ==
  /\ indexPromise = "pending"
  /\ fetchCount = 1
  /\ overlayOpen
  /\ Len(reactions) >= 2

\* C3: doSearch runs from the timer only when at least 80 ms have passed since
\* the last input event, with the value the input then holds; after an input
\* event the search for its value is either still scheduled or has run exactly
\* once, and never more than once.
C3_Debounce ==
  /\ lastRunAge # -1 => lastRunAge >= Debounce
  /\ runsSinceInput >= 1 => lastQuery = inputValue
  /\ runsSinceInput <= 1
  /\ hadInput =>
       \/ runsSinceInput = 1
       \/ runsSinceInput = 0 /\ t \in DOMAIN timers /\ timers[t] >= 0

\* a burst of at least two input events has ended and its one search has run
C3_Witness ==
  /\ inputsInBurst >= 2
  /\ runsSinceInput = 1
  /\ lastQuery = "b"
  /\ sinceInput > Debounce

\* C4: after a failed load indexData stays unset, the message has been written
\* exactly once, the fetch is never repeated and nothing but the message or
\* an empty area is shown.
C4_LoadFailureFatal ==
  /\ errorWrites <= 1
  /\ (indexPromise = "rejected") = (errorWrites = 1)
  /\ indexPromise = "rejected" =>
       /\ indexData = 0
       /\ fetchCount = 1
       /\ fetchPhase = "done"
       /\ reactions = <<>>
       /\ display.kind \in {"none", "error"}
       /\ \A i \in 1..Len(micro) : micro[i].kind # "search"

\* the load failed with two callers waiting, and the button was clicked and a
\* search for "a" ran afterwards
C4_Witness ==
  /\ indexPromise = "rejected"
  /\ lateCalls >= 2
  /\ overlayOpen
  /\ Trim(lastQuery) = "a"
  /\ runsSinceInput = 1
  /\ display.kind = "none"

\* C5: at most one loader script is appended, and the calls made while it
\* loads resolve with the renderer: once the script has loaded and the promise
\* jobs have run, the displayed snippets are rendered with it.
C5_SharedKatexLoad ==
  /\ scriptAppends <= 1
  /\ (script = "loaded" /\ micro = <<>> /\ display.kind = "results")
       => display.rendered

---------------------------------------------------------------------------
\* Strings are sequences of characters (one-character strings).  A few
\* multi-character atoms stand for longer literals that the regular
\* expressions treat as a unit: "\\begin{gathered}", "\\(", "<<LATEX0>>", ...

MaxTextLen == 5      \* length of the texts handed to the text functions

Lower == {"a", "b", "c"}
Upper == {"A", "B", "C"}
Digit == {"0", "1", "2", "3", "4", "5", "6", "7", "8", "9"}
Space == {" ", "\n"}
Punct == {".", "!", "?"}

SeqsUpTo(S, n) == UNION {[1..k -> S] : k \in 0..n}

SetMin(S) == CHOOSE x \in S : \A y \in S : x <= y
SetMax(S) == CHOOSE x \in S : \A y \in S : x >= y

\* s.slice(from, to) for 0 <= from, to (JavaScript positions, end exclusive)
Slice(s, from, to) == SubSeq(s, from + 1, Min(to, Len(s)))

\* s.indexOf(needle, pos): JavaScript position of the first occurrence at or
\* after pos, -1 when there is none
IndexOfFrom(s, needle, pos) ==
  LET at == {i \in pos..(Len(s) - Len(needle)) :
               SubSeq(s, i + 1, i + Len(needle)) = needle}
  IN IF at = {} THEN -1 ELSE SetMin(at)

IndexOf(s, needle) == IndexOfFrom(s, needle, 0)

\* s.lastIndexOf(c) for a single character
LastIndexOfChar(s, c) ==
  LET at == {i \in 0..(Len(s) - 1) : s[i + 1] = c}
  IN IF at = {} THEN -1 ELSE SetMax(at)

\* (s.match(/\$/g) || []).length
DollarCount(s) == Cardinality({i \in 1..Len(s) : s[i] = "$"})

\* s.toLowerCase()
LowerChar(c) ==
  CASE c = "A" -> "a" [] c = "B" -> "b" [] c = "C" -> "c" [] OTHER -> c
ToLowerCase(s) == [i \in 1..Len(s) |-> LowerChar(s[i])]

\* position (1-based) of the first character at or after i that is not white
\* space, Len(s) + 1 when there is none: the greedy \s*
RECURSIVE SkipSpace(_, _)
SkipSpace(s, i) ==
  IF i <= Len(s) /\ s[i] \in Space THEN SkipSpace(s, i + 1) ELSE i

\* text.replace(/OPEN[\s\S]*?CLOSE/g, repl) for literal delimiters
RECURSIVE ReplaceDelimited(_, _, _, _)
ReplaceDelimited(s, open, close, repl) ==
  LET i == IndexOf(s, open)
      j == IF i = -1 THEN -1 ELSE IndexOfFrom(s, close, i + Len(open))
  IN IF j = -1 THEN s
     ELSE Slice(s, 0, i) \o repl
          \o ReplaceDelimited(Slice(s, j + Len(close), Len(s)), open, close, repl)

\* the one character U+2026 (horizontal ellipsis), written "..." here
Hellip == "..."
\* the separator ' ... ' (space, U+2026, space)
Ellipsis == <<" ", Hellip, " ">>

EnvNames == {"gathered", "aligned"}
BeginTok(e) == IF e = "gathered" THEN "\\begin{gathered}" ELSE "\\begin{aligned}"
EndTok(e) == IF e = "gathered" THEN "\\end{gathered}" ELSE "\\end{aligned}"

\* End (1-based position of the last character) of the match of
\*   PRE \s* \begin{e} [\s\S]*? \end{e} \s* POST
\* that starts at position i, 0 when there is none.  pre = post = "" is the
\* pattern without the surrounding \( \) or \[ \].
EnvMatchEnd(s, i, pre, post) ==
  LET b == IF pre = "" THEN i
           ELSE IF s[i] = pre THEN SkipSpace(s, i + 1) ELSE Len(s) + 1
      ends(e) == {j \in (b + 1)..Len(s) :
                    /\ s[j] = EndTok(e)
                    /\ post # "" => /\ SkipSpace(s, j + 1) <= Len(s)
                                    /\ s[SkipSpace(s, j + 1)] = post}
      last(j) == IF post = "" THEN j ELSE SkipSpace(s, j + 1)
  IN IF b > Len(s) THEN 0
     ELSE IF \E e \in EnvNames : s[b] = BeginTok(e) /\ ends(e) # {}
          THEN LET e == CHOOSE e \in EnvNames : s[b] = BeginTok(e)
               IN last(SetMin(ends(e)))
          ELSE 0

\* text.replace(/PRE\s*\\begin\{(gathered|aligned)\}[\s\S]*?\\end\{\1\}\s*POST/g, ' ... ')
RECURSIVE ReplaceEnv(_, _, _)
ReplaceEnv(s, pre, post) ==
  LET starts == {i \in 1..Len(s) : EnvMatchEnd(s, i, pre, post) # 0} IN
  IF starts = {} THEN s
  ELSE LET i == SetMin(starts)
           e == EnvMatchEnd(s, i, pre, post)
       IN SubSeq(s, 1, i - 1) \o Ellipsis
          \o ReplaceEnv(SubSeq(s, e + 1, Len(s)), pre, post)

\* '<<LATEX' + n + '>>' for n = 0, 1, ...
LatexIds == <<"<<LATEX0>>", "<<LATEX1>>", "<<LATEX2>>", "<<LATEX3>>",
              "<<LATEX4>>", "<<LATEX5>>", "<<LATEX6>>", "<<LATEX7>>">>
LatexId(n) == LatexIds[n + 1]

\* End (1-based) of the match of /(\$\$?)([\s\S]*?)(\1)/ that starts at the
\* "$" at position p, 0 when there is none.  With "$$" at p the delimiter is
\* "$$" if a later "$$" closes it; otherwise the engine backtracks to the
\* delimiter "$", which the second "$" closes at once.
MathMatchEnd(s, p) ==
  LET dbl == p < Len(s) /\ s[p + 1] = "$"
      close2 == IndexOfFrom(s, <<"$", "$">>, p + 1)   \* JS position >= p + 1
      close1 == IndexOfFrom(s, <<"$">>, p)            \* JS position >= p
  IN IF dbl /\ close2 # -1 THEN close2 + 2
     ELSE IF close1 # -1 THEN close1 + 1
     ELSE 0

\* Step 2: text.replace(/(\$\$?)([\s\S]*?)(\1)/g, ...) with the callback that
\* pushes the span to latexPlaces and returns its placeholder.  n is
\* latexPlaces.length on entry.  The result is <<text, latexPlaces>>.
RECURSIVE ProtectMath(_, _)
ProtectMath(s, n) ==
  LET p == IndexOf(s, <<"$">>) + 1
      e == IF p = 0 THEN 0 ELSE MathMatchEnd(s, p)
  IN IF e = 0 THEN <<s, <<>>>>
     ELSE LET rest == ProtectMath(SubSeq(s, e + 1, Len(s)), n + 1)
          IN << SubSeq(s, 1, p - 1) \o <<LatexId(n)>> \o rest[1],
                <<SubSeq(s, p, e)>> \o rest[2] >>

\* Step 3a: text.replace(/([.!?])(\p{Lu})/gu, '$1 ... $2')
RECURSIVE SeparateSentences(_)
SeparateSentences(s) ==
  IF Len(s) < 2 THEN s
  ELSE IF s[1] \in Punct /\ s[2] \in Upper
       THEN <<s[1]>> \o Ellipsis \o <<s[2]>> \o SeparateSentences(SubSeq(s, 3, Len(s)))
       ELSE <<s[1]>> \o SeparateSentences(Tail(s))

\* Step 3b: text.replace(/([\p{Ll}\p{N}])(\p{Lu})(?=\p{Ll})/gu, '$1 ... $2')
RECURSIVE SeparateGlued(_)
SeparateGlued(s) ==
  IF Len(s) < 3 THEN s
  ELSE IF s[1] \in Lower \cup Digit /\ s[2] \in Upper /\ s[3] \in Lower
       THEN <<s[1]>> \o Ellipsis \o <<s[2]>> \o SeparateGlued(SubSeq(s, 3, Len(s)))
       ELSE <<s[1]>> \o SeparateGlued(Tail(s))

\* Step 4: text.replace(/\s+/g, ' ')
RECURSIVE CollapseSpace(_)
CollapseSpace(s) ==
  IF s = <<>> THEN s
  ELSE IF s[1] \in Space
       THEN <<" ">> \o CollapseSpace(SubSeq(s, SkipSpace(s, 1), Len(s)))
       ELSE <<s[1]>> \o CollapseSpace(Tail(s))

\* s.trim()
TrimSeq(s) ==
  LET keep == {i \in 1..Len(s) : s[i] \notin Space}
  IN IF keep = {} THEN <<>> ELSE SubSeq(s, SetMin(keep), SetMax(keep))

\* the one character U+0060 (grave accent), written "grave" here
Grave == "grave"

\* The text a replacement string stands for in String.prototype.replace:
\* "$$" is "$", "$&" the match, "$" + grave the text before it, "$'" the
\* text after it.
RECURSIVE GetSubstitution(_, _, _, _)
GetSubstitution(repl, matched, before, after) ==
  IF repl = <<>> THEN <<>>
  ELSE IF repl[1] = "$" /\ Len(repl) >= 2 /\ repl[2] \in {"$", "&", Grave, "'"}
       THEN (CASE repl[2] = "$" -> <<"$">>
               [] repl[2] = "&" -> matched
               [] repl[2] = Grave -> before
               [] repl[2] = "'" -> after)
            \o GetSubstitution(SubSeq(repl, 3, Len(repl)), matched, before, after)
       ELSE <<repl[1]>> \o GetSubstitution(Tail(repl), matched, before, after)

\* text.replace(id, repl) with a string pattern: the first occurrence only
ReplaceFirst(s, id, repl) ==
  LET i == IndexOf(s, <<id>>) IN
  IF i = -1 THEN s
  ELSE LET before == Slice(s, 0, i)
           after == Slice(s, i + 1, Len(s))
       IN before \o GetSubstitution(repl, <<id>>, before, after) \o after

\* the loop that puts latexPlaces[n], latexPlaces[n + 1], ... back
RECURSIVE RestoreMath(_, _, _)
RestoreMath(s, places, n) ==
  IF n >= Len(places) THEN s
  ELSE RestoreMath(ReplaceFirst(s, LatexId(n), places[n + 1]), places, n + 1)

\* Step 1 and 1bis of stripLiquidAndNoise: liquid tags, then the environments
StripMarkup(text) ==
  LET a == ReplaceDelimited(text, <<"{", "%">>, <<"%", "}">>, <<" ">>)
      b == ReplaceDelimited(a, <<"{", "{">>, <<"}", "}">>, <<" ">>)
      c == ReplaceEnv(b, "\\(", "\\)")
      d == ReplaceEnv(c, "\\[", "\\]")
  IN ReplaceEnv(d, "", "")

\* Steps 3 and 4 on the text that holds the placeholders
SeparateAndCollapse(s) ==
  TrimSeq(CollapseSpace(SeparateGlued(SeparateSentences(s))))

stripLiquidAndNoise(text) ==
  IF text = <<>> THEN <<>>
  ELSE LET prot == ProtectMath(StripMarkup(text), 0)
       IN RestoreMath(SeparateAndCollapse(prot[1]), prot[2], 0)

\* makeSnippet(text, q, maxLen)
Lookahead == 200     \* t.slice(end, Math.min(t.length, end + 200))

BalanceDollars(tt, core0, end) ==
  LET rest == Slice(tt, end, Min(Len(tt), end + Lookahead))
      nextDollar == IndexOf(rest, <<"$">>)
      lastDollar == LastIndexOfChar(core0, "$")
  IN IF DollarCount(core0) % 2 = 1
     THEN IF nextDollar >= 0
          THEN core0 \o Slice(tt, end, end + nextDollar + 1)
          ELSE IF lastDollar >= 0 THEN Slice(core0, 0, lastDollar)
               ELSE core0
     ELSE core0

SnippetWindow(tt, start, end) ==
  LET lead == IF start > 0 THEN <<Hellip>> \o Ellipsis ELSE <<>>
      trail == IF end < Len(tt) THEN Ellipsis \o <<Hellip>> ELSE <<>>
  IN lead \o BalanceDollars(tt, Slice(tt, start, end), end) \o trail

SnippetAround(tt, i, maxLen) ==
  LET start == Max(0, i - (maxLen \div 3))
  IN SnippetWindow(tt, start, Min(Len(tt), start + maxLen))

SnippetOf(tt, i, maxLen) ==
  IF i = -1 THEN Slice(tt, 0, maxLen)
  ELSE SnippetAround(tt, i, maxLen)

SnippetIn(tt, q, maxLen) ==
  SnippetOf(tt, IndexOf(ToLowerCase(tt), ToLowerCase(q)), maxLen)

makeSnippet(text, q, maxLen) ==
  SnippetIn(stripLiquidAndNoise(text), q, maxLen)

UiIdle == UiInit /\ katex = FALSE

Done == out # <<>>

\* ---- stripLiquidAndNoise ----
TextsMath == SeqsUpTo({"$", "a", "B", " ", "."}, MaxTextLen)
TextsLiquid == SeqsUpTo({"{", "%", "}", "$"}, MaxTextLen)
TextsEnv == SeqsUpTo({"\\(", "\\)", "\\begin{gathered}", "\\end{gathered}", "$"},
                     MaxTextLen)

StripInit ==
  /\ UiIdle
  /\ fn = "stripLiquidAndNoise"
  /\ arg \in [text : TextsMath \cup TextsLiquid \cup TextsEnv]
  /\ out = <<>>

StripRun ==
  /\ fn = "stripLiquidAndNoise"
  /\ ~Done
  /\ out' = <<stripLiquidAndNoise(arg.text)>>
  /\ UNCHANGED <<fn, arg>>
  /\ UNCHANGED uiVars

SpecStrip == StripInit /\ [][StripRun]_vars

\* ---- makeSnippet ----
MaxSnippetLen == 3   \* largest maxLen handed to makeSnippet

SnippetTexts == SeqsUpTo({"$", "a", "B", " "}, MaxTextLen)
SnippetQueries == {<<"a">>, <<"B">>, <<"z">>}

SnippetInit ==
  /\ UiIdle
  /\ fn = "makeSnippet"
  /\ arg \in [text : SnippetTexts, q : SnippetQueries, maxLen : 1..MaxSnippetLen]
  /\ out = <<>>

SnippetRun ==
  /\ fn = "makeSnippet"
  /\ ~Done
  /\ out' = <<makeSnippet(arg.text, arg.q, arg.maxLen)>>
  /\ UNCHANGED <<fn, arg>>
  /\ UNCHANGED uiVars

SpecSnippet == SnippetInit /\ [][SnippetRun]_vars

\* the span list of a text with every placeholder replaced by its span
RECURSIVE Splice(_, _)
Splice(s, places) ==
  IF s = <<>> THEN <<>>
  ELSE LET at == {n \in 0..(Len(places) - 1) : s[1] = LatexId(n)}
       IN (IF at = {} THEN <<s[1]>> ELSE places[SetMin(at) + 1])
          \o Splice(Tail(s), places)

HasBody(span) == \E i \in 1..Len(span) : span[i] # "$"

\* C10: the output of stripLiquidAndNoise is the cleaned text with every math
\* span (here: every span with a body) in place, character for character,
\* and holds no placeholder.
C10_MathSpansPreserved ==
  (fn = "stripLiquidAndNoise" /\ Done) =>
    LET prot == ProtectMath(StripMarkup(arg.text), 0) IN
    (\A n \in 1..Len(prot[2]) : HasBody(prot[2][n])) =>
      /\ out[1] = Splice(SeparateAndCollapse(prot[1]), prot[2])
      /\ \A i \in 1..Len(out[1]) : \A n \in 1..Len(LatexIds) : out[1][i] # LatexIds[n]

\* a text whose "$" delimit inline spans with a body, all of them closed
InlineMathOnly(text) ==
  /\ DollarCount(text) % 2 = 0
  /\ \A i \in 1..(Len(text) - 1) : ~(text[i] = "$" /\ text[i + 1] = "$")

\* C7: the snippet of a text (here: one whose math spans are all closed)
\* holds an even number of "$"
C7_EvenDollars ==
  (fn = "makeSnippet" /\ Done /\ InlineMathOnly(arg.text))
    => DollarCount(out[1]) % 2 = 0

\* On the path where the query occurs the count is even.
SnippetFoundPathEven ==
  (fn = "makeSnippet" /\ Done
     /\ IndexOf(ToLowerCase(stripLiquidAndNoise(arg.text)), ToLowerCase(arg.q)) # -1)
    => DollarCount(out[1]) % 2 = 0

---------------------------------------------------------------------------
\* URLs are sequences of path segments, each a sequence of characters;
\* "/it/I/5/3.html" is <<<<"it">>, <<"I">>, <<"5">>, <<"3", ".html">>>> with
\* ".html", "index", "pr" and the like written as one atom.  A trailing "/"
\* is an empty last segment.

BasePath == <<"micro26_wip5">>       \* getBasePath() without its leading "/"
Langs == {<<"it">>, <<"en">>}

\* stripBaseFromUrl(url) for a url that starts with "/"
stripBaseFromUrl(url) ==
  IF url = <<>> THEN url
  ELSE IF url = <<BasePath>> THEN <<<<>>>>
  ELSE IF Len(url) > 1 /\ url[1] = BasePath THEN Tail(url)
  ELSE url

\* u.replace(/\/{2,}/g, '/'): an empty segment that is not the last one is
\* the gap between two adjacent slashes
CollapseSlashes(url) ==
  LET keep == {i \in 1..Len(url) : url[i] # <<>> \/ i = Len(url)}
      nth(k) == CHOOSE i \in keep : Cardinality({j \in keep : j <= i}) = k
  IN [k \in 1..Cardinality(keep) |-> url[nth(k)]]

CleanUrl(url) == CollapseSlashes(stripBaseFromUrl(url))

isBigTocResult(url) ==
  LET u == CleanUrl(url)
      named(n) == Len(u) = 2 /\ u[1] \in Langs /\ u[2] \in {<<n>>, <<n, ".html">>}
  IN \/ Len(u) = 1 /\ u[1] \in Langs
     \/ Len(u) = 2 /\ u[1] \in Langs /\ u[2] = <<>>
     \/ named("index")
     \/ named("toc-big")
     \/ named("toc_big")

\* s.indexOf(needle, pos) and occCount(hay, needle)
RECURSIVE OccFrom(_, _, _)
OccFrom(hay, needle, pos) ==
  LET j == IndexOfFrom(hay, needle, pos)
  IN IF j = -1 THEN 0 ELSE 1 + OccFrom(hay, needle, j + Len(needle))

occCount(hay, needle) ==
  IF hay = <<>> \/ needle = <<>> THEN 0 ELSE OccFrom(hay, needle, 0)

ScoreBase == 5000      \* 5000 - idx
TokenBonus == 20       \* occCount(haystack, t) * 20
PhraseBonus == 300     \* occCount(hay, phraseNorm) * 300
NoMatch == -1

RECURSIVE SumSeq(_)
SumSeq(xs) == IF xs = <<>> THEN 0 ELSE xs[1] + SumSeq(Tail(xs))

scoreMatchAND(haystack, tokens) ==
  IF \E i \in 1..Len(tokens) : tokens[i] # <<>> /\ IndexOf(haystack, tokens[i]) = -1
  THEN NoMatch
  ELSE LET found == {IndexOf(haystack, tokens[i]) : i \in 1..Len(tokens)} \ {-1}
           bonus == SumSeq([i \in 1..Len(tokens) |->
                              occCount(haystack, tokens[i]) * TokenBonus])
       IN IF found = {}
          THEN NoMatch          \* Math.min() is Infinity: 5000 - Infinity < 0
          ELSE LET score == (ScoreBase - SetMin(found)) + bonus
               IN IF score > 0 THEN score ELSE NoMatch

\* The loop body of the doSearch callback for one item: the entry it pushes
\* to scored, or nothing
ScoreItem(item, query) ==
  IF isBigTocResult(item.url) THEN <<>>
  ELSE IF query.wantsPhrase
       THEN IF query.phraseNorm = <<>> \/ IndexOf(item.hay, query.phraseNorm) = -1
            THEN <<>>
            ELSE <<[s |-> (ScoreBase - IndexOf(item.hay, query.phraseNorm))
                            + occCount(item.hay, query.phraseNorm) * PhraseBonus,
                    url |-> item.url]>>
       ELSE LET s == scoreMatchAND(item.hay, query.tokens)
            IN IF s < 0 THEN <<>> ELSE <<[s |-> s, url |-> item.url]>>

RECURSIVE ScoreAll(_, _)
ScoreAll(data, query) ==
  IF data = <<>> THEN <<>>
  ELSE ScoreItem(data[1], query) \o ScoreAll(Tail(data), query)

\* romanToInt(r): the letters are upper-cased, unknown letters count 0
RomanValue(c) ==
  CASE c \in {"I", "i"} -> 1
    [] c \in {"V", "v"} -> 5
    [] c \in {"X", "x"} -> 10
    [] c \in {"L", "l"} -> 50
    [] c \in {"C", "c"} -> 100
    [] c \in {"D", "d"} -> 500
    [] c \in {"M", "m"} -> 1000
    [] OTHER -> 0

\* the loop of romanToInt from position i down to 1; acc = <<total, prev>>
RECURSIVE RomanLoop(_, _, _)
RomanLoop(r, i, acc) ==
  IF i = 0 THEN acc[1]
  ELSE LET v == RomanValue(r[i])
       IN IF v < acc[2]
          THEN RomanLoop(r, i - 1, <<acc[1] - v, acc[2]>>)
          ELSE RomanLoop(r, i - 1, <<acc[1] + v, v>>)

romanToInt(r) == RomanLoop(r, Len(r), <<0, 0>>)

IsDigits(seg) == seg # <<>> /\ \A i \in 1..Len(seg) : seg[i] \in Digit

DigitValue(c) == CHOOSE n \in 0..9 : <<"0", "1", "2", "3", "4", "5", "6", "7", "8", "9">>[n + 1] = c

\* parseInt(digits, 10) for a string of digits
RECURSIVE ParseInt(_)
ParseInt(seg) ==
  IF seg = <<>> THEN 0
  ELSE ParseInt(SubSeq(seg, 1, Len(seg) - 1)) * 10 + DigitValue(seg[Len(seg)])

LastNumber == 999      \* parseInt(...) || 999
LastKey == <<999, 999, 999, 9>>

OrLast(n) == IF n = 0 THEN LastNumber ELSE n

IsPreface(u) == Len(u) = 2 /\ u[1] \in Langs /\ u[2] = <<"pr", ".html">>

\* u.match(/^\/(it|en)\/([^\/]+)\/(\d+)\/([^\/]+)$/)
MatchesShape(u) ==
  /\ Len(u) = 4
  /\ u[1] \in Langs
  /\ u[2] # <<>>
  /\ IsDigits(u[3])
  /\ u[4] # <<>>

bookOrderKey(url) ==
  LET u == CleanUrl(url) IN
  IF IsPreface(u) THEN <<0, 0, 0, 0>>
  ELSE IF ~MatchesShape(u) THEN LastKey
  ELSE LET partIdx == romanToInt(u[2])
           chap == OrLast(ParseInt(u[3]))
           last == u[4]
           secDigits == SubSeq(last, 1, Len(last) - 1)
           sec == IF last[Len(last)] = ".html" /\ IsDigits(secDigits)
                  THEN OrLast(ParseInt(secDigits))
                  ELSE LastNumber
       IN IF last = <<"index", ".html">> THEN <<partIdx, chap, 0, 0>>
          ELSE <<partIdx, chap, sec, 1>>

\* cmpKeys(a, b) for two keys of the same length
RECURSIVE cmpKeys(_, _)
cmpKeys(a, b) ==
  IF a = <<>> THEN 0
  ELSE IF a[1] # b[1] THEN a[1] - b[1]
  ELSE cmpKeys(Tail(a), Tail(b))

\* the comparator handed to scored.sort
Compare_Relevance(a, b) ==
  IF b.s - a.s # 0 THEN b.s - a.s
  ELSE cmpKeys(bookOrderKey(a.url), bookOrderKey(b.url))

Compare(a, b) ==
  LET ka == bookOrderKey(a.url)
      kb == bookOrderKey(b.url)
  IN IF ka[1] - kb[1] # 0 THEN ka[1] - kb[1]
     ELSE IF ka[2] - kb[2] # 0 THEN ka[2] - kb[2]
     ELSE IF b.s - a.s # 0 THEN b.s - a.s
     ELSE cmpKeys(ka, kb)

\* Array.prototype.sort: stable; x goes before the first element it precedes
RECURSIVE InsertSorted(_, _)
InsertSorted(sorted, x) ==
  IF sorted = <<>> THEN <<x>>
  ELSE IF Compare(x, sorted[1]) < 0 THEN <<x>> \o sorted
  ELSE <<sorted[1]>> \o InsertSorted(Tail(sorted), x)

RECURSIVE SortScored(_)
SortScored(scored) ==
  IF scored = <<>> THEN <<>>
  ELSE InsertSorted(SortScored(SubSeq(scored, 1, Len(scored) - 1)), scored[Len(scored)])

TopCap == 80           \* scored.slice(0, 80)

\* the end of the doSearch callback: sort, cut, and the items of the rest
RankScored(scored) ==
  LET kept == Slice(SortScored(scored), 0, TopCap)
  IN [scored |-> kept, top |-> [i \in 1..Len(kept) |-> kept[i].url]]

---------------------------------------------------------------------------
\* ---- the scoring loop of the doSearch callback ----
\* A haystack is a run of a filler letter, which no query holds, and a tail;
\* the state holds the length of the run, the functions get the string.
MaxPad == 5400       \* longest run of filler

Pad(n) == [i \in 1..n |-> "c"]
HayOf(h) == Pad(h.pad) \o h.tail
Expand(data) == [i \in 1..Len(data) |-> [url |-> data[i].url, hay |-> HayOf(data[i].hay)]]
PadLens == {0, 3, ScoreBase, ScoreBase + TokenBonus, ScoreBase + PhraseBonus, MaxPad}
Tails == {<<>>, <<"a">>, <<"b">>, <<"a", "a">>, <<"a", " ", "b">>, <<" ", "b", " ", "a">>}
Hays == [pad : PadLens, tail : Tails]

UrlSection == <<<<"it">>, <<"I">>, <<"2">>, <<"3", ".html">>>>
UrlToc == <<<<"it">>, <<"toc-big", ".html">>>>
UrlHome == <<<<"it">>, <<>>>>

\* what doSearch derives from the raw query: "a", "a-b", "!!", "a b",
\* the quoted "a" and the quoted empty phrase
Queries ==
  { [wantsPhrase |-> FALSE, phraseNorm |-> <<"a">>, tokens |-> <<<<"a">>>>],
    [wantsPhrase |-> FALSE, phraseNorm |-> <<"a", " ", "b">>, tokens |-> <<<<"a">>, <<"b">>>>],
    [wantsPhrase |-> FALSE, phraseNorm |-> <<>>, tokens |-> <<>>],
    [wantsPhrase |-> TRUE, phraseNorm |-> <<"a", " ", "b">>, tokens |-> <<<<"a">>, <<"b">>>>],
    [wantsPhrase |-> TRUE, phraseNorm |-> <<"a">>, tokens |-> <<<<"a">>>>],
    [wantsPhrase |-> TRUE, phraseNorm |-> <<>>, tokens |-> <<>>] }

ScoreInit ==
  /\ UiIdle
  /\ fn = "score"
  /\ arg \in [data : {<<[url |-> u, hay |-> h]>> : u \in {UrlSection, UrlToc, UrlHome}, h \in Hays},
              query : Queries]
  /\ out = <<>>

ScoreRun ==
  /\ fn = "score"
  /\ ~Done
  /\ out' = <<ScoreAll(Expand(arg.data), arg.query)>>
  /\ UNCHANGED <<fn, arg>>
  /\ UNCHANGED uiVars

SpecScore == ScoreInit /\ [][ScoreRun]_vars

AllTokensOccur(hay, tokens) ==
  \A i \in 1..Len(tokens) : IndexOf(hay, tokens[i]) # -1

\* C8: in AND-token mode a record (not a table-of-contents page) whose
\* haystack holds every token of a non-empty token list scores at least 1
\* and is kept, wherever the first occurrence is; a record that lacks a
\* token gets the sentinel and is dropped.
C8_AndTokensKept ==
  (fn = "score" /\ Done /\ ~arg.query.wantsPhrase /\ arg.query.tokens # <<>>
     /\ ~isBigTocResult(arg.data[1].url)) =>
    LET hay == HayOf(arg.data[1].hay)
        tokens == arg.query.tokens
    IN IF AllTokensOccur(hay, tokens)
       THEN scoreMatchAND(hay, tokens) >= 1 /\ Len(out[1]) = 1
       ELSE scoreMatchAND(hay, tokens) = NoMatch /\ out[1] = <<>>

\* C9: every candidate pushed to the result list has a strictly positive
\* score, in phrase mode and in AND-token mode.
C9_PositiveScores ==
  (fn = "score" /\ Done) => \A i \in 1..Len(out[1]) : out[1][i].s > 0

\* In AND-token mode the pushed scores are positive.
AndModeScoresPositive ==
  (fn = "score" /\ Done /\ ~arg.query.wantsPhrase) =>
    \A i \in 1..Len(out[1]) : out[1][i].s > 0

---------------------------------------------------------------------------
\* ---- the ordering at the end of the doSearch callback ----
MaxItems == 3        \* candidates in scored

SortUrls ==
  { <<<<"it">>, <<"pr", ".html">>>>,
    <<<<"it">>, <<"I">>, <<"2">>, <<"index", ".html">>>>,
    <<<<"it">>, <<"I">>, <<"2">>, <<"3", ".html">>>>,
    <<<<"en">>, <<"I">>, <<"5">>, <<"1", ".html">>>>,
    <<BasePath, <<"it">>, <<"I", "I">>, <<"1">>, <<"1", "2", ".html">>>>,
    <<<<"it">>, <<"M">>, <<"1">>, <<"1", ".html">>>>,
    <<<<"it">>, <<"about", ".html">>>> }

SortInit ==
  /\ UiIdle
  /\ fn = "rank"
  /\ arg \in [scored : SeqsUpTo([s : {4990, 5020}, url : SortUrls], MaxItems)]
  /\ out = <<>>

SortRun ==
  /\ fn = "rank"
  /\ ~Done
  /\ out' = <<RankScored(arg.scored)>>
  /\ UNCHANGED <<fn, arg>>
  /\ UNCHANGED uiVars

SpecSort == SortInit /\ [][SortRun]_vars

PartChap(url) == <<bookOrderKey(url)[1], bookOrderKey(url)[2]>>
SecFlag(url) == <<bookOrderKey(url)[3], bookOrderKey(url)[4]>>
PairLess(a, b) == a[1] < b[1] \/ (a[1] = b[1] /\ a[2] < b[2])

\* the order of (part, chapter), then score, then (section, flag) between
\* the result at position i and a later one at position j
BookOrdered(r, i, j) ==
  /\ ~PairLess(PartChap(r[j].url), PartChap(r[i].url))
  /\ PartChap(r[i].url) = PartChap(r[j].url) => r[i].s >= r[j].s
  /\ (PartChap(r[i].url) = PartChap(r[j].url) /\ r[i].s = r[j].s)
       => ~PairLess(SecFlag(r[j].url), SecFlag(r[i].url))

OutOfSchema(url) == ~IsPreface(CleanUrl(url)) /\ ~MatchesShape(CleanUrl(url))

=============================================================================
